---------------------------- MODULE Spec2Model ----------------------------
(***************************************************************************)
(* Model of src/index.js: the address classifier, BlockchainScanner, the   *)
(* Formcarry relay and the per-chat conversation handlers of the bot.      *)
(*                                                                         *)
(* Strings are sequences of one-character strings, so that the regular     *)
(* expressions, trim() and split() are computed character by character.    *)
(* One chat is modelled; userData[chatId] is the variable userData.        *)
(***************************************************************************)
EXTENDS Integers, Sequences, FiniteSets, Bags, TLC

VARIABLES
    userData,   \* userData[chatId]: the session record, or NoSession
    tasks,      \* bag of suspended continuations (awaits and timers in flight)
    ev,         \* the inbound event or continuation handled by the last step
    out,        \* what the last step emitted: messages, probe calls, POSTs, throws
    wallet,     \* the wallet address the user of the chat owns
    call        \* a direct call of scanAddress (ScannerSpec only)

vars == <<userData, tasks, ev, out, wallet, call>>

-----------------------------------------------------------------------------
(* Bounds of the model *)

\* suspended continuations of one chat that may be in flight together
MaxTasks == 2

-----------------------------------------------------------------------------
(* Program constants *)

EVMHexLen == 40
BTCBodyMin == 25
BTCBodyMax == 39
XRPBodyMin == 25
XRPBodyMax == 34
MinSeedWords == 12
MinKeyLength == 64
DefaultRetries == 3
DefaultDelay == 1000

-----------------------------------------------------------------------------
(* Characters and strings *)

LowerCase == << "a","b","c","d","e","f","g","h","i","j","k","l","m",
                "n","o","p","q","r","s","t","u","v","w","x","y","z" >>
UpperCase == << "A","B","C","D","E","F","G","H","I","J","K","L","M",
                "N","O","P","Q","R","S","T","U","V","W","X","Y","Z" >>
Digit == << "0","1","2","3","4","5","6","7","8","9" >>

IndexOf(alpha, c) == CHOOSE i \in 1..Len(alpha) : alpha[i] = c

\* a regular-expression character range lo-hi
Range(alpha, lo, hi) == { alpha[i] : i \in IndexOf(alpha, lo)..IndexOf(alpha, hi) }

Rep(c, n) == [i \in 1..n |-> c]

HasPrefix(s, p) == Len(s) >= Len(p) /\ SubSeq(s, 1, Len(p)) = p

\* the value undefined where a string is expected (msg.text of a message
\* that carries no text): a sequence that is no string of characters
Undefined == << "(undefined)" >>

\* String(x), as RegExp.prototype.test applies it to its argument
StringOf(x) ==
    IF x = Undefined THEN << "u","n","d","e","f","i","n","e","d" >> ELSE x

\* the characters \s matches, of those the model's inputs use
WhiteSpace == { " ", "\t", "\n" }

\* String.prototype.trim
trim(s) ==
    LET keep == { i \in 1..Len(s) : s[i] \notin WhiteSpace }
    IN  IF keep = {} THEN << >>
        ELSE LET lo == CHOOSE i \in keep : \A j \in keep : i <= j
                 hi == CHOOSE i \in keep : \A j \in keep : j <= i
             IN  SubSeq(s, lo, hi)

\* s.split(/\s+/).length: one piece more than there are maximal runs of
\* white space (the empty string splits into one empty piece)
SplitLength(s) ==
    1 + Cardinality({ i \in 1..Len(s) :
                        /\ s[i] \in WhiteSpace
                        /\ (i = 1 \/ s[i-1] \notin WhiteSpace) })

-----------------------------------------------------------------------------
(* Address validation functions *)

\* [a-fA-F0-9]
HexClass == Range(LowerCase, "a", "f") \cup Range(UpperCase, "A", "F")
              \cup Range(Digit, "0", "9")

\* [a-zA-HJ-NP-Z0-9]
BTCClass == Range(LowerCase, "a", "z") \cup Range(UpperCase, "A", "H")
              \cup Range(UpperCase, "J", "N") \cup Range(UpperCase, "P", "Z")
              \cup Range(Digit, "0", "9")

\* [1-9A-HJ-NP-Za-km-z]
XRPClass == Range(Digit, "1", "9") \cup Range(UpperCase, "A", "H")
              \cup Range(UpperCase, "J", "N") \cup Range(UpperCase, "P", "Z")
              \cup Range(LowerCase, "a", "k") \cup Range(LowerCase, "m", "z")

\* (bc1|[13])
BTCPrefixes == { << "b","c","1" >>, << "1" >>, << "3" >> }

\* ^prefix class{lo,hi}$ on the whole string
MatchAnchored(s, prefixes, class, lo, hi) ==
    \E p \in prefixes :
        /\ HasPrefix(s, p)
        /\ Len(s) - Len(p) >= lo
        /\ Len(s) - Len(p) <= hi
        /\ \A i \in (Len(p) + 1)..Len(s) : s[i] \in class

\* /^0x[a-fA-F0-9]{40}$/.test(address)
validateEVMAddress(address) ==
    MatchAnchored(StringOf(address), { << "0","x" >> }, HexClass,
                  EVMHexLen, EVMHexLen)

validateBTCAddress_AcceptsR(address) ==
    MatchAnchored(StringOf(address), BTCPrefixes \cup { << "r" >> }, BTCClass,
                  BTCBodyMin, BTCBodyMax)

validateBTCAddress_AnyUpper(address) ==
    MatchAnchored(StringOf(address), BTCPrefixes,
                  BTCClass \cup Range(UpperCase, "A", "Z"),
                  BTCBodyMin, BTCBodyMax)

\* /^(bc1|[13])[a-zA-HJ-NP-Z0-9]{25,39}$/.test(address)
validateBTCAddress(address) ==
    MatchAnchored(StringOf(address), BTCPrefixes, BTCClass,
                  BTCBodyMin, BTCBodyMax)

\* /^r[1-9A-HJ-NP-Za-km-z]{25,34}$/.test(address)
validateXRPAddress(address) ==
    MatchAnchored(StringOf(address), { << "r" >> }, XRPClass,
                  XRPBodyMin, XRPBodyMax)

\* the value null
Null == "null"

identifyAddressType_DefaultsToEVM(address) ==
    IF validateBTCAddress(address) THEN "btc"
    ELSE IF validateXRPAddress(address) THEN "xrp"
    ELSE "evm"

identifyAddressType(address) ==
    IF validateEVMAddress(address) THEN "evm"
    ELSE IF validateBTCAddress(address) THEN "btc"
    ELSE IF validateXRPAddress(address) THEN "xrp"
    ELSE Null

-----------------------------------------------------------------------------
(* Blockchain scanner *)

\* this.chains.evm, in the order Object.entries lists it
EVMChains == << "eth", "polygon", "bsc" >>

\* this.chains: the display name and symbol of a chain
ChainName(chain) ==
    CASE chain = "eth" -> "Ethereum"
      [] chain = "polygon" -> "Polygon"
      [] chain = "bsc" -> "Binance Smart Chain"
      [] chain = "btc" -> "Bitcoin"
      [] chain = "xrp" -> "Ripple"

ChainSymbol(chain) ==
    CASE chain = "eth" -> "ETH"
      [] chain = "polygon" -> "MATIC"
      [] chain = "bsc" -> "BNB"
      [] chain = "btc" -> "BTC"
      [] chain = "xrp" -> "XRP"

\* what a provider may answer to one probe: a reply, or a rejected request
ProbeError == [failed |-> TRUE]
EVMReplies == { [balance |-> 7, tokens |-> 2] }
BTCReplies == { [funded_txo_sum |-> 9, spent_txo_sum |-> 4, tx_count |-> 3] }
XRPReplies == { [xrp |-> 5, transaction_count |-> 0] }

RepliesOf(chain) ==
    { ProbeError } \cup
    ( CASE chain = "btc" -> BTCReplies
        [] chain = "xrp" -> XRPReplies
        [] OTHER -> EVMReplies )

getEVMWalletData(chain, reply) ==
    IF reply = ProbeError THEN [success |-> FALSE]
    ELSE [success |-> TRUE, balance |-> reply.balance,
          tokenCount |-> reply.tokens,
          name |-> ChainName(chain), symbol |-> ChainSymbol(chain)]

getBTCWalletData(reply) ==
    IF reply = ProbeError THEN [success |-> FALSE]
    ELSE [success |-> TRUE,
          balance |-> reply.funded_txo_sum - reply.spent_txo_sum,
          txCount |-> reply.tx_count,
          name |-> ChainName("btc"), symbol |-> ChainSymbol("btc")]

getXRPWalletData(reply) ==
    IF reply = ProbeError THEN [success |-> FALSE]
    ELSE [success |-> TRUE, balance |-> reply.xrp,
          txCount |-> reply.transaction_count,
          name |-> ChainName("xrp"), symbol |-> ChainSymbol("xrp")]

\* the probes scanAddress starts for an address type
ProbesOf(addressType) ==
    CASE addressType = "evm" -> { EVMChains[i] : i \in 1..Len(EVMChains) }
      [] addressType = "btc" -> { "btc" }
      [] addressType = "xrp" -> { "xrp" }
      [] OTHER -> {}

\* scanAddress has not returned yet
NotReturned == [returned |-> FALSE]

scanAddress_NoEarlyReturn(address) ==
    LET addressType == identifyAddressType(address)
    IN  [type |-> addressType, pending |-> ProbesOf(addressType),
         results |-> [type |-> addressType],
         ret |-> IF ProbesOf(addressType) = {}
                 THEN [success |-> TRUE, data |-> [type |-> addressType]]
                 ELSE NotReturned]

\* scanAddress up to its first await: classify, fail fast or start the probes.
\* A running scan is [type, pending (probes in flight), results, ret].
scanAddress(address) ==
    LET addressType == identifyAddressType(address)
    IN  IF addressType = Null
        THEN [type |-> addressType, pending |-> {},
              results |-> [type |-> addressType],
              ret |-> [success |-> FALSE, error |-> "Invalid address format"]]
        ELSE [type |-> addressType, pending |-> ProbesOf(addressType),
              results |-> [type |-> addressType],
              ret |-> NotReturned]

\* the entry a settled probe yields
ProbeEntry(chain, reply) ==
    CASE chain = "btc" -> getBTCWalletData(reply)
      [] chain = "xrp" -> getXRPWalletData(reply)
      [] OTHER -> getEVMWalletData(chain, reply)

ScanReturn_FailsWithProbe(results) ==
    [success |-> \A c \in DOMAIN results \ { "type" } : results[c].success,
     data |-> results]

\* the value scanAddress returns once every probe has settled
ScanReturn(results) == [success |-> TRUE, data |-> results]

ProbeSettled_FailFast(sc, chain, reply) ==
    IF reply = ProbeError
    THEN [sc EXCEPT !.pending = {},
                    !.ret = [success |-> FALSE, error |-> "probe failed"]]
    ELSE LET results == (chain :> ProbeEntry(chain, reply)) @@ sc.results
             pending == sc.pending \ { chain }
         IN  [sc EXCEPT !.results = results,
                        !.pending = pending,
                        !.ret = IF pending = {} THEN ScanReturn(results)
                                ELSE NotReturned]

ProbeSettled_DropsFailure(sc, chain, reply) ==
    LET results == IF reply = ProbeError THEN sc.results
                   ELSE (chain :> ProbeEntry(chain, reply)) @@ sc.results
        pending == sc.pending \ { chain }
    IN  [sc EXCEPT !.results = results,
                   !.pending = pending,
                   !.ret = IF pending = {} THEN ScanReturn(results)
                           ELSE NotReturned]

\* one probe of a running scan settles: its entry is stored under its chain id;
\* when it was the last one in flight, Promise.all resolves and scanAddress
\* returns
ProbeSettled(sc, chain, reply) ==
    LET results == (chain :> ProbeEntry(chain, reply)) @@ sc.results
        pending == sc.pending \ { chain }
    IN  [sc EXCEPT !.results = results,
                   !.pending = pending,
                   !.ret = IF pending = {} THEN ScanReturn(results)
                           ELSE NotReturned]

\* the probe calls a scan has issued
ProbeCalls(sc) == { [type |-> "probe", chain |-> c] : c \in sc.pending }

\* settle every probe still in flight with the reply chosen for its chain
RECURSIVE SettleAll(_, _)
SettleAll(sc, replies) ==
    IF sc.pending = {} THEN sc
    ELSE LET chain == CHOOSE c \in sc.pending : TRUE
         IN  SettleAll(ProbeSettled(sc, chain, replies[chain]), replies)

\* the ways the probes in flight may be answered
ReplyMaps(sc) ==
    { f \in [sc.pending -> EVMReplies \cup BTCReplies \cup XRPReplies
                             \cup { ProbeError }] :
        \A c \in sc.pending : f[c] \in RepliesOf(c) }

-----------------------------------------------------------------------------
(* User session management *)

\* userData[chatId] when the chat has no record
NoSession == [absent |-> TRUE]

\* user.field is not undefined
Has(user, field) == field \in DOMAIN user

\* user.field = value
Set(user, field, value) == (field :> value) @@ user

\* generateSessionId.  Of the id `TRUST-<random>-<user>` the model keeps
\* whether the chat has been shown it, which is all the handlers do with
\* an id besides storing and forwarding it.
generateSessionId == [shown |-> FALSE]

\* the id once a message has displayed it
Displayed(sessionId) == [sessionId EXCEPT !.shown = TRUE]

\* the record ensureUserData leaves in userData[chatId]
ensureUserData(user) ==
    IF user = NoSession
    THEN [step |-> "choosing_option", sessionId |-> generateSessionId]
    ELSE user

-----------------------------------------------------------------------------
(* Suspended continuations *)

Spawn(bag, new) == bag (+) SetToBag(new)

Retire(bag, t) == bag (-) SetToBag({ t })

\* A scan continuation holds the record `user` it read when its handler
\* started.  live says that this record is still userData[chatId]; once
\* the entry is deleted or assigned a new record the held one is unreachable
\* from userData for good, and what the continuation writes to it is lost.
\* The handler that awaits sendToFormcarry holds its `user` in the same way.
Orphan(t) == IF "live" \in DOMAIN t THEN [t EXCEPT !.live = FALSE] ELSE t

Orphaned(bag) ==
    LET after == { Orphan(t) : t \in BagToSet(bag) }
    IN  [u \in after |->
            CopiesIn(u, bag) +
            ( IF "live" \in DOMAIN u /\ CopiesIn([u EXCEPT !.live = TRUE], bag) > 0
              THEN CopiesIn([u EXCEPT !.live = TRUE], bag)
              ELSE 0 )]

Send(msg) == [type |-> "send", msg |-> msg]

Throw == [type |-> "throw", error |-> "TypeError"]

-----------------------------------------------------------------------------
(* Formcarry submission *)

\* what the endpoint may answer to one POST: HTTP 200, another 2xx status,
\* a 429 rejection, or any other rejection (network error, 4xx, 5xx)
Responses == { "200", "2xx", "429", "error" }

Post(data) == [type |-> "post", data |-> data]

\* the `data` of a call that a retry passes on.  A continuation of the relay
\* does not carry the payload along: nothing reads it but the POST itself.
SameData == "data"

\* sendToFormcarry(bot, chatId, data, retries, delay) up to its await: the
\* POST is issued (the step that calls it emits Post(data)), the caller
\* waits
sendToFormcarry(retries, delay) ==
    [kind |-> "post", pc |-> "posting", retries |-> retries, delay |-> delay]

ShouldRetry_AnyRejection(response, retries) ==
    response \in { "429", "error" } /\ retries > 0

\* the message handler suspended at `await sendToFormcarry(..)`: the call,
\* and the record `user` the handler took the payload from
Awaited(t) ==
    [kind |-> t.kind, pc |-> t.pc, retries |-> t.retries, delay |-> t.delay,
     live |-> TRUE]

\* the call alone
Detached(t) ==
    [kind |-> t.kind, pc |-> t.pc, retries |-> t.retries, delay |-> t.delay]

\* the catch branch's test for a retry
ShouldRetry(response, retries) == response = "429" /\ retries > 0

\* the delay of the retry timer
RetryDelay(delay) == delay * 2

PostSettled_SilentGiveUp(t, response) ==
    IF response = "200"
    THEN [out |-> { Send("followup_menu") }, spawn |-> {}]
    ELSE IF response = "2xx"
    THEN [out |-> { Send("submit_failed") }, spawn |-> {}]
    ELSE IF ShouldRetry(response, t.retries)
    THEN [out |-> { [type |-> "timer", delay |-> RetryDelay(t.delay)] },
          spawn |-> { [t EXCEPT !.pc = "timer",
                                !.retries = t.retries - 1,
                                !.delay = RetryDelay(t.delay)] }]
    ELSE IF response = "429"
    THEN [out |-> {}, spawn |-> {}]
    ELSE [out |-> { Send("submit_failed") }, spawn |-> {}]

\* what sendToFormcarry(.., retries, delay) does with the answer to its
\* POST: the notice it sends or the timer it arms, and the continuation it
\* leaves behind (the armed retry)
PostSettled(t, response) ==
    IF response = "200"
    THEN [out |-> { Send("followup_menu") }, spawn |-> {}]
    ELSE IF response = "2xx"
    THEN [out |-> { Send("submit_failed") }, spawn |-> {}]
    ELSE IF ShouldRetry(response, t.retries)
    THEN [out |-> { [type |-> "timer", delay |-> RetryDelay(t.delay)] },
          spawn |-> { [t EXCEPT !.pc = "timer",
                                !.retries = t.retries - 1,
                                !.delay = RetryDelay(t.delay)] }]
    ELSE [out |-> { Send("submit_failed") }, spawn |-> {}]

-----------------------------------------------------------------------------
(* The texts and buttons of the model's user *)

\* a regular expression that is a plain substring, tested anywhere in s
Contains(s, sub) ==
    \E i \in 1..(Len(s) - Len(sub) + 1) : SubSeq(s, i, i + Len(sub) - 1) = sub

StartCommand == << "/","s","t","a","r","t" >>
HelpCommand == << "/","h","e","l","p" >>

EvmAddress == << "0","x" >> \o Rep("a", EVMHexLen)
BtcAddress == << "b","c","1" >> \o Rep("q", BTCBodyMax)
XrpAddress == << "r" >> \o Rep("h", XRPBodyMin)
\* n one-letter words, a space between two
Words(n) == [i \in 1..(2 * n - 1) |-> IF i % 2 = 1 THEN "w" ELSE " "]
Seed12 == Words(MinSeedWords)
Seed11 == Words(MinSeedWords - 1)
Key64 == Rep("k", MinKeyLength)
\* 64 characters as sent, 63 once trimmed
Key63Padded == Rep("k", MinKeyLength - 1) \o << " " >>

\* the addresses a user may own; each behaviour has one user
Wallets == { EvmAddress, BtcAddress, XrpAddress }

\* what is not an address: credentials, commands, and a message without text
OtherTexts == { Seed12, Seed11, Key64, Key63Padded, StartCommand, HelpCommand,
                Undefined }

\* the issue categories the model's user picks
Options == { "harvest" }

\* callback data the handler tests for by name
MethodData == { "private_key", "seed_phrase" }

CallbackData == { "restart_bot", "import_another_wallet", "skip_scan" }
                  \cup MethodData \cup Options

-----------------------------------------------------------------------------
(* Message handler *)

\* the fields of formData that are not undefined
formData(user, text) ==
    [f \in { "option", "authMethod", "walletAddress", "addressType",
             "sessionId" } \cap DOMAIN user |-> user[f]]
    @@ [input |-> text, timestamp |-> "now"]

isValid_Strict(authMethod, text) ==
    IF authMethod = "seed_phrase"
    THEN SplitLength(trim(text)) > MinSeedWords
    ELSE IF authMethod = "private_key"
    THEN Len(text) > MinKeyLength
    ELSE FALSE

\* the structural check of the credential
isValid(authMethod, text) ==
    IF authMethod = "seed_phrase"
    THEN SplitLength(trim(text)) >= MinSeedWords
    ELSE IF authMethod = "private_key"
    THEN Len(text) >= MinKeyLength
    ELSE FALSE

\* What the handlers compute from a text alone, tabulated once for the texts
\* of the model: msg.text?.trim(), identifyAddressType(text),
\* scanAddress(text), isValid, and the onText expressions.
trimmed ==
    [m \in Wallets \cup OtherTexts |-> IF m = Undefined THEN m ELSE trim(m)]
identified ==
    [text \in { trimmed[m] : m \in DOMAIN trimmed } |-> identifyAddressType(text)]
scanned ==
    [text \in DOMAIN identified |-> scanAddress(text)]
valid ==
    [authMethod \in MethodData |->
        [text \in DOMAIN identified \ { Undefined } |-> isValid(authMethod, text)]]
matches ==
    [command \in { StartCommand, HelpCommand } |->
        [m \in DOMAIN trimmed |-> m # Undefined /\ Contains(m, command)]]

\* bot.on('message') up to its suspension: `user` is the record
\* ensureUserData returned, `text` is msg.text?.trim().  Yields the
\* continuation the handler suspends in and what it emits; it writes
\* nothing to `user` before it suspends.
\* The await of the loading message that precedes scanAddress is folded
\* into this step: nothing is read or written between the two.
onMessage(user, text) ==
    IF user.step = "awaiting_address"
    THEN IF identified[text] = Null
         THEN [spawn |-> {}, out |-> { Send("invalid_address") }]
         ELSE [spawn |-> { [kind |-> "scan", live |-> TRUE, text |-> text,
                            addressType |-> identified[text],
                            sc |-> scanned[text]] },
               out |-> { Send("scanning") } \cup ProbeCalls(scanned[text])]
    ELSE IF user.step = "providing_input"
    THEN IF ~ Has(user, "authMethod") \/ user.authMethod \notin MethodData
         THEN \* neither branch of the check runs: isValid stays false
              [spawn |-> {}, out |-> { Send("") }]
         ELSE IF text = Undefined
         THEN \* text.trim() or text.length, of undefined
              [spawn |-> {}, out |-> { Throw }]
         ELSE IF ~ valid[user.authMethod][text]
         THEN [spawn |-> {},
               out |-> { Send(IF user.authMethod = "seed_phrase"
                              THEN "invalid_seed_phrase"
                              ELSE "invalid_private_key") }]
         ELSE [spawn |-> { Awaited(sendToFormcarry(DefaultRetries, DefaultDelay)) },
               out |-> { Post(formData(user, text)) }]
    ELSE [spawn |-> {}, out |-> {}]

-----------------------------------------------------------------------------
(* Callback query handler *)

\* bot.on('callback_query') up to its suspension: `user` is the record
\* ensureUserData returned.  Yields the record as the handler leaves it,
\* the continuation it suspends in and what it emits.
onCallbackQuery(user, data) ==
    IF data = "restart_bot"
    THEN [user |-> user, spawn |-> {},
          out |-> { Send("restarting"), Send("/start") }]
    ELSE IF data = "import_another_wallet"
    THEN [user |-> Set(user, "step", "choosing_option"), spawn |-> {},
          out |-> { Send("import_menu") }]
    ELSE IF data \in MethodData
    THEN \* the write is deferred to the timer that ends the animation
         [user |-> user,
          spawn |-> { [kind |-> "auth", data |-> data] },
          out |-> { Send("auth_loading") }]
    ELSE IF data = "skip_scan"
    THEN [user |-> Set(user, "step", "awaiting_auth"), spawn |-> {},
          out |-> IF Has(user, "option")
                  THEN { Send("auth_prompt") }
                  ELSE \* user.option.toUpperCase(), of undefined
                       { Throw }]
    ELSE \* the 800 ms timer of this branch only delays the prompt
         [user |-> Set(Set(user, "option", data), "step", "awaiting_address"),
          spawn |-> {},
          out |-> { Send("preparing"), Send("address_prompt") }]

-----------------------------------------------------------------------------
(* Inbound events *)

\* A message arrives.  node-telegram-bot-api first emits 'message' and then
\* runs the onText handlers whose expression matches; each runs up to its
\* first await before anything else is handled.
Message(msgText) ==
    LET user == ensureUserData(userData)
        r == onMessage(user, trimmed[msgText])
        \* bot.onText(/\/start/): ensureUserData, generateSessionId, and the
        \* loading animation
        started == IF matches[StartCommand][msgText]
                   THEN { [kind |-> "start", pc |-> "loading",
                           sessionId |-> generateSessionId] }
                   ELSE {}
    IN  /\ BagCardinality(tasks) + Cardinality(r.spawn) + Cardinality(started)
              <= MaxTasks
        /\ userData' = user
        /\ tasks' = Spawn(Spawn(tasks, r.spawn), started)
        /\ ev' = [kind |-> "message"]
        /\ out' = r.out
                    \cup ( IF started # {} THEN { Send("loading") } ELSE {} )
                    \cup ( IF matches[HelpCommand][msgText]
                           THEN { Send("help") } ELSE {} )
        /\ UNCHANGED <<wallet, call>>

\* A button is pressed
CallbackQuery(data) ==
    LET r == onCallbackQuery(ensureUserData(userData), data)
    IN  /\ BagCardinality(tasks) + Cardinality(r.spawn) <= MaxTasks
        /\ userData' = r.user
        /\ tasks' = Spawn(tasks, r.spawn)
        /\ ev' = [kind |-> "callback_query", data |-> data]
        /\ out' = r.out
        /\ UNCHANGED <<wallet, call>>

-----------------------------------------------------------------------------
(* Continuations *)

\* /start: the animation and the 2000 ms timer are over; the loading message
\* is deleted and the option menu is sent, showing the session id
StartShowsMenu(t) ==
    /\ t.kind = "start" /\ t.pc = "loading"
    /\ tasks' = Spawn(Retire(tasks, t),
                      { [t EXCEPT !.pc = "menu",
                                  !.sessionId = Displayed(t.sessionId)] })
    /\ ev' = [kind |-> "start_menu"]
    /\ out' = { Send("menu") }
    /\ UNCHANGED <<userData, wallet, call>>

\* the record /start assigns to userData[chatId]
startRecord(sessionId) == [step |-> "choosing_option", sessionId |-> sessionId]

\* /start: the menu has been sent; userData[chatId] is assigned a new record
StartResets(t) ==
    /\ t.kind = "start" /\ t.pc = "menu"
    /\ userData' = startRecord(t.sessionId)
    /\ tasks' = Orphaned(Retire(tasks, t))
    /\ ev' = [kind |-> "start_reset"]
    /\ out' = {}
    /\ UNCHANGED <<wallet, call>>

\* the deferred write of an auth-method selection
authWrite(user, data) ==
    Set(Set(user, "authMethod", data), "step", "providing_input")

\* private_key / seed_phrase: the 1500 ms timer that ends the animation
\* fires; the loading message is deleted, the record is written and the
\* credential prompt is sent
AuthFires(t) ==
    /\ t.kind = "auth"
    /\ tasks' = Retire(tasks, t)
    /\ ev' = [kind |-> "auth_timer", data |-> t.data]
    /\ IF userData = NoSession
       THEN \* userData[chatId].authMethod = data, of undefined
            /\ out' = { Throw }
            /\ UNCHANGED userData
       ELSE /\ userData' = authWrite(userData, t.data)
            /\ out' = { Send(t.data) }
    /\ UNCHANGED <<wallet, call>>

\* the writes at the end of a successful scan
scanWrite(user, text, addressType) ==
    Set(Set(Set(user, "step", "awaiting_auth"), "walletAddress", text),
        "addressType", addressType)

\* the chains whose block the results message shows
Shown(data) == { c \in DOMAIN data \ { "type" } : data[c].success }

\* The probes of a scan are answered, scanAddress returns and the message
\* handler resumes.  The probes write to nothing but the scan's own
\* `results`, so their settling is folded into this step; ScannerSpec
\* settles them one at a time.  On success the handler plays the progress
\* animation, sends the results with the auth buttons and writes to the
\* record it holds; on failure it throws into its catch, which edits the
\* loading message into the scan-failed notice.
ScanFinishes(t, replies) ==
    /\ t.kind = "scan"
    /\ LET ret == SettleAll(t.sc, replies).ret
       IN  IF ret.success
           THEN /\ out' = { [type |-> "send", msg |-> "scan_results",
                             chains |-> Shown(ret.data)] }
                /\ userData' = IF t.live
                               THEN scanWrite(userData, t.text, t.addressType)
                               ELSE userData
           ELSE /\ out' = { Send("scan_failed") }
                /\ UNCHANGED userData
    /\ tasks' = Retire(tasks, t)
    /\ ev' = [kind |-> "scan_done"]
    /\ UNCHANGED <<wallet, call>>

\* The scan of a message ends in the handler's catch: scanAddress returned
\* the failure of its own catch (an exception outside the probes' try
\* blocks), or a step of the result handling threw.  The catch edits the
\* loading message into the scan-failed notice, which carries the auth
\* buttons, and writes nothing.
ScanFails(t) ==
    /\ t.kind = "scan"
    /\ out' = { Send("scan_failed") }
    /\ tasks' = Retire(tasks, t)
    /\ ev' = [kind |-> "scan_failed"]
    /\ UNCHANGED <<userData, wallet, call>>

PostSettles_DeletesOnSuccess(t, response) ==
    /\ t.kind = "post" /\ t.pc = "posting"
    /\ out' = PostSettled(Detached(t), response).out
    /\ IF response = "200"
       THEN /\ userData' = NoSession
            /\ tasks' = Orphaned(Spawn(Retire(tasks, t),
                                       PostSettled(Detached(t), response).spawn))
       ELSE /\ UNCHANGED userData
            /\ tasks' = Spawn(Retire(tasks, t),
                              PostSettled(Detached(t), response).spawn)
    /\ ev' = [kind |-> "post_settled", response |-> response]
    /\ UNCHANGED <<wallet, call>>

\* The POST of a submission is answered: sendToFormcarry notifies the user,
\* or arms the retry timer, and returns; the message handler that awaited
\* it deletes userData[chatId].
PostSettles(t, response) ==
    /\ t.kind = "post" /\ t.pc = "posting"
    /\ out' = PostSettled(Detached(t), response).out
    /\ userData' = NoSession
    /\ tasks' = Orphaned(Spawn(Retire(tasks, t),
                               PostSettled(Detached(t), response).spawn))
    /\ ev' = [kind |-> "post_settled", response |-> response]
    /\ UNCHANGED <<wallet, call>>

\* A retry timer fires: sendToFormcarry runs again, issues the next POST and
\* handles its answer.  Nobody awaits this call.
RetryFires(t, response) ==
    /\ t.kind = "post" /\ t.pc = "timer"
    /\ out' = { Post(SameData) } \cup PostSettled(t, response).out
    /\ tasks' = Spawn(Retire(tasks, t), PostSettled(t, response).spawn)
    /\ ev' = [kind |-> "retry", response |-> response]
    /\ UNCHANGED <<userData, wallet, call>>

-----------------------------------------------------------------------------
(* The bot *)

Unused == [pc |-> "unused"]

Init ==
    /\ userData = NoSession
    /\ tasks = EmptyBag
    /\ ev = [kind |-> "init"]
    /\ out = {}
    /\ wallet \in Wallets
    /\ call = Unused

Next ==
    \/ \E msgText \in { wallet } \cup OtherTexts : Message(msgText)
    \/ \E data \in CallbackData : CallbackQuery(data)
    \/ \E t \in BagToSet(tasks) : StartShowsMenu(t)
    \/ \E t \in BagToSet(tasks) : StartResets(t)
    \/ \E t \in BagToSet(tasks) : AuthFires(t)
    \/ \E t \in BagToSet(tasks) :
          t.kind = "scan" /\ \E replies \in ReplyMaps(t.sc) : ScanFinishes(t, replies)
    \/ \E t \in BagToSet(tasks) : ScanFails(t)
    \/ \E t \in BagToSet(tasks) : \E response \in Responses : PostSettles(t, response)
    \/ \E t \in BagToSet(tasks) : \E response \in Responses : RetryFires(t, response)

Spec == Init /\ [][Next]_vars

-----------------------------------------------------------------------------
(* The scanner called directly, on any string *)

\* prefix, a run of one character, at most one odd character, one more
\* character of the run
Build(prefix, c, n, odd, m) == prefix \o Rep(c, n) \o odd \o Rep(c, m)

AddressPrefixes ==
    { << >>, << "0","x" >>, << "0","X" >>, << "b","c","1" >>, << "1" >>,
      << "3" >>, << "r" >>, << "b","c" >>, << "2" >> }
RunChars == { "a", "F", "g", "0", "1", "O", "I", "l", "Z" }
RunLengths == { 0, 23, 24, 25, 33, 34, 35, 38, 39, 40, 41 }
OddChars == { << >>, << "0" >>, << "O" >>, << "I" >>, << "l" >>, << "g" >>,
              << "-" >>, << " " >>, << "\n" >> }

\* the arguments scanAddress and identifyAddressType are called with
Addresses ==
    { Build(prefix, c, n, odd, m) :
        prefix \in AddressPrefixes, c \in RunChars, n \in RunLengths,
        odd \in OddChars, m \in { 0, 1 } }
    \cup { Undefined }

\* identifyAddressType(address) is evaluated
CallIdentify ==
    /\ call.pc = "idle"
    /\ call' = [pc |-> "identified", address |-> call.address,
                type |-> identifyAddressType(call.address)]
    /\ UNCHANGED <<userData, tasks, ev, out, wallet>>

\* scanner.scanAddress(address) runs up to its first await, or returns
CallScan ==
    /\ call.pc = "idle"
    /\ LET sc == scanAddress(call.address)
       IN  call' = [pc |-> "scanning", address |-> call.address, sc |-> sc,
                    probes |-> ProbeCalls(sc), replies |-> << >>]
    /\ UNCHANGED <<userData, tasks, ev, out, wallet>>

\* one probe of the call settles
CallProbeSettles(chain, reply) ==
    /\ call.pc = "scanning"
    /\ chain \in call.sc.pending
    /\ call' = [call EXCEPT !.sc = ProbeSettled(call.sc, chain, reply),
                             !.replies = Append(call.replies, <<chain, reply>>)]
    /\ UNCHANGED <<userData, tasks, ev, out, wallet>>

ScannerInit ==
    /\ userData = NoSession
    /\ tasks = EmptyBag
    /\ ev = [kind |-> "init"]
    /\ out = {}
    /\ wallet = EvmAddress
    /\ call \in { [pc |-> "idle", address |-> a] : a \in Addresses }

ScannerNext ==
    \/ CallIdentify
    \/ CallScan
    \/ \E chain \in ProbesOf("evm") \cup ProbesOf("btc") \cup ProbesOf("xrp") :
          \E reply \in RepliesOf(chain) : CallProbeSettles(chain, reply)

ScannerSpec == ScannerInit /\ [][ScannerNext]_vars

-----------------------------------------------------------------------------
(* Properties of the classifier and of scanAddress, under ScannerSpec *)

\* the patterns an argument satisfies
Satisfied(address) ==
    { p \in { "evm", "btc", "xrp" } :
        \/ p = "evm" /\ validateEVMAddress(address)
        \/ p = "btc" /\ validateBTCAddress(address)
        \/ p = "xrp" /\ validateXRPAddress(address) }

\* C1: identifyAddressType answers every argument, undefined included, with
\* one of evm, btc, xrp, null; no argument satisfies two of the three
\* patterns, and the answer is the one pattern satisfied (null if none), so
\* the order of the three checks does not matter.
C1_ClassifyTotalExclusive ==
    call.pc = "identified" =>
        /\ call.type \in { "evm", "btc", "xrp", Null }
        /\ Cardinality(Satisfied(call.address)) <= 1
        /\ Satisfied(call.address) = { call.type } \ { Null }

C1_Witness ==
    /\ call.pc = "identified"
    /\ call.type = "xrp"

\* the part of a string after the prefix bc1, 1 or 3, if it has one
BTCBodies(s) ==
    { SubSeq(s, Len(p) + 1, Len(s)) :
        p \in { q \in { << "b","c","1" >>, << "1" >>, << "3" >> } : HasPrefix(s, q) } }

Chars(s) == { s[i] : i \in 1..Len(s) }

LettersAndDigits ==
    { LowerCase[i] : i \in 1..26 } \cup { UpperCase[i] : i \in 1..26 }
      \cup { Digit[i] : i \in 1..10 }

\* C2 as stated: a string is classified btc only if, after the prefix bc1, 1
\* or 3, it has 25 to 39 characters, none of them 0, O, I or l.
C2_Original ==
    (call.pc = "identified" /\ call.type = "btc") =>
        \E body \in BTCBodies(call.address) :
            /\ Len(body) >= 25 /\ Len(body) <= 39
            /\ Chars(body) \cap { "0", "O", "I", "l" } = {}

\* C2 amended: a string is classified btc only if, after the prefix bc1, 1
\* or 3, it has 25 to 39 characters, all of them ASCII letters or digits and
\* none of them the capital letters O or I; the digit 0 and the small
\* letter l are accepted.
C2_BTCBodyExcludesCapitalOI ==
    (call.pc = "identified" /\ call.type = "btc") =>
        \E body \in BTCBodies(call.address) :
            /\ Len(body) >= 25 /\ Len(body) <= 39
            /\ Chars(body) \subseteq LettersAndDigits
            /\ Chars(body) \cap { "O", "I" } = {}

C2_Witness ==
    /\ call.pc = "identified"
    /\ call.type = "btc"
    /\ \E body \in BTCBodies(call.address) : { "0", "l" } \subseteq Chars(body)

\* C3: scanAddress called with an address that classifies as unknown returns
\* the failure at once and starts no probe.
C3_UnknownStartsNoProbe ==
    (call.pc = "scanning" /\ Satisfied(call.address) = {}) =>
        /\ call.probes = {}
        /\ call.sc.pending = {}
        /\ call.replies = << >>
        /\ call.sc.ret # NotReturned
        /\ ~ call.sc.ret.success

C3_Witness ==
    /\ call.pc = "scanning"
    /\ Satisfied(call.address) = {}
    /\ call.sc.ret = [success |-> FALSE, error |-> "Invalid address format"]

\* scanAddress has returned for a classified address
Returned ==
    /\ call.pc = "scanning"
    /\ Satisfied(call.address) # {}
    /\ call.sc.ret # NotReturned

\* the chains whose probe was answered with an error
Failed == { call.replies[i][1] :
              i \in { j \in 1..Len(call.replies) : call.replies[j][2] = ProbeError } }

\* C4: the result scanAddress returns for a classified address holds one
\* entry for each chain of the address type and no other: eth, polygon and
\* bsc for evm, btc for btc, xrp for xrp, whatever the probes answered.
C4_OneEntryPerProbedChain ==
    Returned =>
        /\ "data" \in DOMAIN call.sc.ret
        /\ DOMAIN call.sc.ret.data \ { "type" } =
              ( CASE Satisfied(call.address) = { "evm" } -> { "eth", "polygon", "bsc" }
                  [] Satisfied(call.address) = { "btc" } -> { "btc" }
                  [] Satisfied(call.address) = { "xrp" } -> { "xrp" } )
        /\ \A c \in DOMAIN call.sc.ret.data \ { "type" } :
              "success" \in DOMAIN call.sc.ret.data[c]

C4_Witness ==
    /\ Returned
    /\ Failed = { "eth", "polygon", "bsc" }
    /\ DOMAIN call.sc.ret.data = { "type", "eth", "polygon", "bsc" }

\* C5: a probe answered with an error leaves the entry {success: false} and
\* nothing else under its chain, and scanAddress returns success = true for
\* a classified address however many probes failed.
C5_ProbeFailureIsolated ==
    /\ call.pc = "scanning" =>
          \A c \in Failed : call.sc.results[c] = [success |-> FALSE]
    /\ Returned => call.sc.ret.success

C5_Witness ==
    /\ Returned
    /\ Failed = { "polygon" }
    /\ call.sc.ret.success
    /\ call.sc.ret.data.eth.success

-----------------------------------------------------------------------------
(* Properties of the session state machine and of the relay, under Spec *)

\* the chat has a record and it is in this step
InStep(user, step) == user # NoSession /\ user.step = step

\* C6: while the session is in choosing_option, an inbound event that is not
\* an option selection (a text message, or a button that names no option)
\* leaves it in choosing_option.
C6_OnlyOptionLeavesChoosing ==
    [][ ( /\ InStep(userData, "choosing_option")
          /\ \/ ev'.kind = "message"
             \/ ev'.kind = "callback_query" /\ ev'.data \notin Options )
        => InStep(userData', "choosing_option") ]_vars

\* skip_scan pressed in choosing_option has moved the session on
C6_Witness ==
    /\ ev.kind = "callback_query" /\ ev.data = "skip_scan"
    /\ InStep(userData, "awaiting_auth")
    /\ ~ Has(userData, "option")
    /\ Throw \in out

\* C7: the step becomes providing_input only by the write of an auth-method
\* selection made on a session that is in awaiting_auth.
C7_InputOnlyFromAwaitingAuth ==
    [][ ( /\ InStep(userData', "providing_input")
          /\ ~ InStep(userData, "providing_input") )
        => ( /\ ev'.kind = "auth_timer"
             /\ InStep(userData, "awaiting_auth") ) ]_vars

\* a session that never chose an option or met awaiting_auth asks for input
C7_Witness ==
    /\ ev.kind = "auth_timer"
    /\ InStep(userData, "providing_input")
    /\ ~ Has(userData, "option")

\* C8: skip_scan pressed in awaiting_address moves the session to
\* awaiting_auth, starts no probe, and the session then holds neither a
\* walletAddress nor an addressType.
C8_SkipLeavesNoWallet ==
    [][ ( /\ InStep(userData, "awaiting_address")
          /\ ev'.kind = "callback_query" /\ ev'.data = "skip_scan" )
        => ( /\ InStep(userData', "awaiting_auth")
             /\ \A o \in out' : o.type # "probe"
             /\ ~ Has(userData', "walletAddress")
             /\ ~ Has(userData', "addressType") ) ]_vars

\* the scan was skipped and the session holds the address of an earlier scan
C8_Witness ==
    /\ ev.kind = "callback_query" /\ ev.data = "skip_scan"
    /\ InStep(userData, "awaiting_auth")
    /\ Has(userData, "walletAddress")
    /\ tasks = EmptyBag

\* the words of a text: its maximal runs of characters that are not white
WordCount(s) ==
    Cardinality({ i \in 1..Len(s) :
                    s[i] \notin WhiteSpace /\ (i = 1 \/ s[i - 1] \in WhiteSpace) })

\* the length of a text without its leading and trailing white space
TrimmedLength(s) ==
    LET black == { i \in 1..Len(s) : s[i] \notin WhiteSpace }
    IN  IF black = {} THEN 0
        ELSE (CHOOSE i \in black : \A j \in black : j <= i)
               - (CHOOSE i \in black : \A j \in black : i <= j) + 1

\* the structural check as the specification words it
Passes(authMethod, s) ==
    \/ authMethod = "seed_phrase" /\ WordCount(s) >= 12
    \/ authMethod = "private_key" /\ TrimmedLength(s) >= 64

\* Passes, tabulated for the texts of the model
passes ==
    [authMethod \in MethodData |->
        [m \in (Wallets \cup OtherTexts) \ { Undefined } |-> Passes(authMethod, m)]]

\* C9: a text message received in providing_input hands a payload to the
\* relay exactly when it passes the structural check of the chosen method
\* (12 words or more for seed_phrase, 64 characters or more, once trimmed,
\* for private_key); a text that fails it is answered with the prompt again,
\* hands over nothing and leaves the session record as it was.
C9_StructuralCheckGatesSubmission ==
    [][ \A m \in (Wallets \cup OtherTexts) \ { Undefined } :
          ( /\ InStep(userData, "providing_input")
            /\ Has(userData, "authMethod")
            /\ Message(m) )
          => IF passes[userData.authMethod][m]
             THEN /\ \E o \in out' : o.type = "post" /\ o.data.input = trimmed[m]
                  /\ BagCardinality(tasks') > BagCardinality(tasks)
             ELSE /\ \A o \in out' : o.type # "post"
                  /\ \A t \in BagToSet(tasks') :
                        t.kind = "post" => CopiesIn(t, tasks') = CopiesIn(t, tasks)
                  /\ Send(IF userData.authMethod = "seed_phrase"
                          THEN "invalid_seed_phrase"
                          ELSE "invalid_private_key") \in out'
                  /\ userData' = userData ]_vars

\* a key of 64 characters as sent, 63 once trimmed, has been turned down
C9_Witness ==
    /\ ev.kind = "message"
    /\ InStep(userData, "providing_input")
    /\ userData.authMethod = "private_key"
    /\ out = { Send("invalid_private_key") }
    /\ tasks = EmptyBag

\* C10: once the POST of an accepted credential is answered, with 200, with
\* another status, with 429 (a retry is armed) or with an error, the session
\* record of the chat is gone.
C10_SessionRemovedAfterSubmit ==
    [][ ev'.kind = "post_settled" => userData' = NoSession ]_vars

\* the first POST was answered 429: the retry is armed, the record is gone
C10_Witness ==
    /\ ev.kind = "post_settled" /\ ev.response = "429"
    /\ userData = NoSession
    /\ \E t \in BagToSet(tasks) : t.kind = "post" /\ t.pc = "timer"

\* the buttons that ask for a new start
ResetData == { "restart_bot", "import_another_wallet" }

\* C11: once a restart_bot or an import_another_wallet button has been
\* handled, in whatever step it was pressed, the session is in
\* choosing_option.
C11_ResetLeadsToChoosing ==
    [][ ( ev'.kind = "callback_query" /\ ev'.data \in ResetData )
        => InStep(userData', "choosing_option") ]_vars

\* restart_bot was pressed while an address was awaited, and it still is
C11_Witness ==
    /\ ev.kind = "callback_query" /\ ev.data = "restart_bot"
    /\ InStep(userData, "awaiting_address")
    /\ out = { Send("restarting"), Send("/start") }

\* what a session records about the conversation
Recorded == { "option", "walletAddress", "addressType", "authMethod" }

\* C12: once a restart_bot or an import_another_wallet button has been
\* handled, the session holds none of the option, walletAddress, addressType
\* and authMethod recorded before it.
C12_ResetDiscardsSession ==
    [][ ( ev'.kind = "callback_query" /\ ev'.data \in ResetData )
        => ( userData' # NoSession /\ DOMAIN userData' \cap Recorded = {} ) ]_vars

\* import_another_wallet was handled and everything recorded is still there
C12_Witness ==
    /\ ev.kind = "callback_query" /\ ev.data = "import_another_wallet"
    /\ InStep(userData, "choosing_option")
    /\ Recorded \subseteq DOMAIN userData

\* a scan, or the POST a handler awaits, is in flight
Outstanding(bag) ==
    \E t \in BagToSet(bag) :
        t.kind = "scan" \/ (t.kind = "post" /\ t.pc = "posting")

\* C13: while a scan or a submission of the session is in flight, handling a
\* further message or button leaves the session record as it is.
C13_NoEventWhileOutstanding ==
    [][ ( /\ Outstanding(tasks)
          /\ ev'.kind \in { "message", "callback_query" } )
        => userData' = userData ]_vars

\* a button was handled, and wrote to the session, during the scan
C13_Witness ==
    /\ ev.kind = "callback_query" /\ ev.data = "skip_scan"
    /\ InStep(userData, "awaiting_auth")
    /\ \E t \in BagToSet(tasks) : t.kind = "scan" /\ t.live

\* the retries that are armed and wait for their timer
Armed(bag) == { t \in BagToSet(bag) : t.kind = "post" /\ t.pc = "timer" }

\* C14: with every POST answered 429, the first, second and third retry are
\* armed with the delays d, 2d and 4d of the base interval d; no fourth retry
\* is armed, and the retry that gives up sends the failure notice.
C14_RetryDelays ==
    [][ /\ \A t \in Armed(tasks') :
              /\ t.retries \in 0..(DefaultRetries - 1)
              /\ t.delay = DefaultDelay * 2 ^ (DefaultRetries - 1 - t.retries)
        /\ ( /\ ev'.kind = "retry" /\ ev'.response = "429"
             /\ \A o \in out' : o.type # "timer" )
           => Send("submit_failed") \in out' ]_vars

\* the first retry is armed, with twice the base interval
C14_Witness ==
    /\ ev.kind = "post_settled" /\ ev.response = "429"
    /\ \E t \in Armed(tasks) :
          t.retries = DefaultRetries - 1 /\ t.delay = 2 * DefaultDelay

\* the payloads the message handler has just handed to the relay
Payloads ==
    IF ev.kind = "message"
    THEN { o.data : o \in { q \in out : q.type = "post" } }
    ELSE {}

\* C15: the sessionId of a payload handed to the relay is an id that a
\* message to the chat has displayed.
C15_PayloadTokenWasShown ==
    \A data \in Payloads :
        "sessionId" \in DOMAIN data /\ data.sessionId.shown

\* a conversation that chose an option and a method posts an id never shown
C15_Witness ==
    \E data \in Payloads :
        /\ { "option", "authMethod", "sessionId" } \subseteq DOMAIN data
        /\ ~ data.sessionId.shown

\* C16: every payload handed to the relay has an option and an authMethod.
C16_PayloadHasOptionAndMethod ==
    \A data \in Payloads : { "option", "authMethod" } \subseteq DOMAIN data

\* a payload without option
C16_Witness ==
    \E data \in Payloads :
        /\ "option" \notin DOMAIN data
        /\ "authMethod" \in DOMAIN data

-----------------------------------------------------------------------------
(* The fan-out of scanAddress, under ScannerSpec *)

\* the chains whose probe has been answered
Replied == { call.replies[i][1] : i \in 1..Len(call.replies) }

\* C17: scanAddress called with an EVM address returns exactly when each of
\* the probes of eth, polygon and bsc has been answered; a probe that fails
\* leaves the other probes in flight, and the entry of each answered probe
\* tells that probe's own answer.
C17_JoinAll ==
    (call.pc = "scanning" /\ Satisfied(call.address) = { "evm" }) =>
        /\ call.sc.pending = { "eth", "polygon", "bsc" } \ Replied
        /\ (call.sc.ret # NotReturned) <=> (Replied = { "eth", "polygon", "bsc" })
        /\ \A i \in 1..Len(call.replies) :
              LET chain == call.replies[i][1]
                  reply == call.replies[i][2]
                  entry == call.sc.results[chain]
              IN  /\ entry.success <=> (reply # ProbeError)
                  /\ entry.success =>
                        /\ entry.balance = reply.balance
                        /\ entry.tokenCount = reply.tokens

\* one probe has failed, a sibling has succeeded after it, the third is still
\* in flight and scanAddress has not returned
C17_Witness ==
    /\ call.pc = "scanning"
    /\ Satisfied(call.address) = { "evm" }
    /\ Len(call.replies) = 2
    /\ call.replies[1][2] = ProbeError
    /\ call.sc.results[call.replies[2][1]].success
    /\ Cardinality(call.sc.pending) = 1
    /\ call.sc.ret = NotReturned

-----------------------------------------------------------------------------
(* The address step, under Spec *)

\* the texts of the model that satisfy none of the three patterns
unknown ==
    [m \in Wallets \cup OtherTexts |-> Satisfied(trimmed[m]) = {}]

\* C18: a message received in awaiting_address whose text satisfies none of
\* the address patterns is answered with the address prompt again; no probe
\* is issued and no scan started, and the session record, its step included,
\* stays as it was.
C18_UnknownAddressReprompts ==
    [][ \A m \in Wallets \cup OtherTexts :
          ( /\ InStep(userData, "awaiting_address")
            /\ unknown[m]
            /\ Message(m) )
          => /\ Send("invalid_address") \in out'
             /\ \A o \in out' : o.type # "probe"
             /\ \A t \in BagToSet(tasks') :
                   t.kind = "scan" => CopiesIn(t, tasks') = CopiesIn(t, tasks)
             /\ userData' = userData ]_vars

\* twelve words were sent where an address was awaited
C18_Witness ==
    /\ ev.kind = "message"
    /\ InStep(userData, "awaiting_address")
    /\ out = { Send("invalid_address") }
    /\ DOMAIN userData \cap { "walletAddress", "addressType" } = {}
    /\ tasks = EmptyBag

\* C19: the scan of an address sent in awaiting_address ends, whatever its
\* probes answered, with the results and the auth buttons sent and with the
\* session in awaiting_auth, holding the address as walletAddress and its
\* classification as addressType.
C19_ScanEndsInAwaitingAuth ==
    [][ ev'.kind = "scan_done"
        => /\ \E o \in out' : o.type = "send" /\ o.msg = "scan_results"
           /\ InStep(userData', "awaiting_auth")
           /\ Has(userData', "walletAddress")
           /\ userData'.walletAddress = wallet
           /\ Has(userData', "addressType")
           /\ Satisfied(wallet) = { userData'.addressType } ]_vars

\* the scan has ended, its results are sent, and the session the chat now
\* has is a new one in choosing_option that knows no address
C19_Witness ==
    /\ ev.kind = "scan_done"
    /\ \E o \in out : o.type = "send" /\ o.msg = "scan_results"
    /\ InStep(userData, "choosing_option")
    /\ ~ Has(userData, "walletAddress")

\* C20: when the scan of a classified address fails as a whole, the notice
\* with the auth buttons is sent, the session moves to awaiting_auth, and no
\* walletAddress or addressType is recorded.
C20_ScanFailureProceedsToAuth ==
    [][ ev'.kind = "scan_failed"
        => /\ Send("scan_failed") \in out'
           /\ InStep(userData', "awaiting_auth")
           /\ userData' # NoSession /\ userData # NoSession
           /\ DOMAIN userData' \cap { "walletAddress", "addressType" }
                = DOMAIN userData \cap { "walletAddress", "addressType" } ]_vars

\* the scan has failed, the notice is out, and an address is still awaited
C20_Witness ==
    /\ ev.kind = "scan_failed"
    /\ out = { Send("scan_failed") }
    /\ InStep(userData, "awaiting_address")
    /\ ~ Has(userData, "walletAddress")

-----------------------------------------------------------------------------
(* The relay, under Spec *)

\* the calls of sendToFormcarry that have not ended
Relaying(bag) ==
    LET posts == { t \in BagToSet(bag) : t.kind = "post" }
    IN  BagCardinality([t \in posts |-> CopiesIn(t, bag)])

\* C21: sendToFormcarry arms a retry only for a POST answered 429; a POST
\* answered with another status than 200, or rejected otherwise, is followed
\* by the failure notice, and the call ends without a retry armed.
C21_RetryOnlyOn429 ==
    [][ ev'.kind \in { "post_settled", "retry" }
        => /\ (\E o \in out' : o.type = "timer") => ev'.response = "429"
           /\ Relaying(tasks') = Relaying(tasks) => ev'.response = "429"
           /\ ev'.response \in { "2xx", "error" }
              => /\ Send("submit_failed") \in out'
                 /\ \A o \in out' : o.type # "timer"
                 /\ Relaying(tasks') = Relaying(tasks) - 1 ]_vars

\* a retry was rejected by something else than 429: the notice is out and
\* nothing is armed
C21_Witness ==
    /\ ev.kind = "retry" /\ ev.response = "error"
    /\ Send("submit_failed") \in out
    /\ Relaying(tasks) = 0

\* Every POST is answered or rejected in the end, and an armed timer fires.
FairSpec ==
    /\ Spec
    /\ WF_vars(\E t \in BagToSet(tasks) : \E response \in Responses :
                  PostSettles(t, response))
    /\ WF_vars(\E t \in BagToSet(tasks) : \E response \in Responses :
                  RetryFires(t, response))

\* the notifications that end a submission
Notices(o) ==
    { q \in o : q.type = "send" /\ q.msg \in { "followup_menu", "submit_failed" } }

\* a submission has just ended with its notification
Notified == ev.kind \in { "post_settled", "retry" } /\ Notices(out) # {}

-----------------------------------------------------------------------------
(* Interleavings of one chat's handlers, under Spec *)

\* a payload of the record that is the chat's session now is with the relay,
\* its first POST unanswered
Submitting(bag) ==
    \E t \in BagToSet(bag) : t.kind = "post" /\ t.pc = "posting" /\ t.live

\* C23: a session record hands at most one payload to the relay: no payload
\* is handed over while an earlier payload of the same record awaits the
\* answer to its POST, which is when the record is removed.
C23_OneSubmissionPerSession ==
    [][ ( ev'.kind = "message" /\ \E o \in out' : o.type = "post" )
        => ~ Submitting(tasks) ]_vars

\* two payloads of one record are with the relay
C23_Witness ==
    /\ ev.kind = "message"
    /\ \E o \in out : o.type = "post"
    /\ \E t \in BagToSet(tasks) :
          t.kind = "post" /\ t.pc = "posting" /\ t.live /\ CopiesIn(t, tasks) = 2

\* C24: when the timer of an auth-method selection fires, the chat has a
\* session record for it to write to.
C24_AuthWriteFindsSession ==
    [][ ev'.kind = "auth_timer" => userData # NoSession ]_vars

\* the timer fired after the submission had removed the record
C24_Witness ==
    /\ ev.kind = "auth_timer"
    /\ userData = NoSession
    /\ out = { Throw }

\* C25: a session in providing_input leaves that step only when the record
\* is removed after a credential was accepted, or by the reset of a /start,
\* or by a restart_bot or import_another_wallet button; the end of a scan
\* does not move it.
C25_InputStepIsLeftOnlyBySubmitOrReset ==
    [][ ( /\ InStep(userData, "providing_input")
          /\ ~ InStep(userData', "providing_input") )
        => \/ ev'.kind \in { "post_settled", "start_reset" }
           \/ ev'.kind = "callback_query" /\ ev'.data \in ResetData ]_vars

\* a scan has ended on a session that had chosen its method, and the session
\* is in awaiting_auth
C25_Witness ==
    /\ ev.kind = "scan_done"
    /\ InStep(userData, "awaiting_auth")
    /\ Has(userData, "authMethod")
    /\ Has(userData, "walletAddress")

\* C26: the reset of a /start does not erase what an event handled after the
\* menu of that /start was sent has written: an option selected just before
\* the reset is still in the session after it.
C26_ResetErasesNothingAfterMenu ==
    [][ ( /\ ev.kind = "callback_query" /\ ev.data \in Options
          /\ ev'.kind = "start_reset" )
        => ( Has(userData', "option") /\ userData'.option = ev.data ) ]_vars

\* the menu of a /start is out, an option was selected from it and the
\* address prompt sent, and the reset of that /start is still to come
C26_Witness ==
    /\ ev.kind = "callback_query" /\ ev.data \in Options
    /\ InStep(userData, "awaiting_address")
    /\ \E t \in BagToSet(tasks) : t.kind = "start" /\ t.pc = "menu"

=============================================================================
